---- MODULE Spec2Model ----
(***************************************************************************)
(* PointText (src/src/text/PointText.js): anchor accessor, multi-line      *)
(* renderer, metrics and drawn bounds, fill hit test.                      *)
(*                                                                         *)
(* Lengths are integers counted in quarter units, so that 0.75 * leading,  *)
(* width / 2 and strokeWidth / 2 are exact on the values used.             *)
(***************************************************************************)
EXTENDS Integers, Sequences, FiniteSets, TLC

VARIABLES
    matrix,     \* this._matrix: [a, b, c, d, tx, ty]
    held,       \* the LinkedPoint a caller got from getPoint: <<>> or <<pt>>
    content,    \* this._content: sequence of characters
    lines,      \* this._lines: sequence of lines (sequences of characters)
    style,      \* this._style
    body,       \* children of document.body
    lastOp,     \* name of the last operation called on the node
    args,       \* its arguments
    ret,        \* its outcome
    drawn,      \* the last _getDrawnTextSize call on the present content,
                \* leading and justification: its inputs and outcome
    prevDrawn   \* the _getDrawnTextSize call before that one

vars ==
    <<matrix, held, content, lines, style, body, lastOp, args, ret, drawn,
      prevDrawn>>

\* ------------------------------------------------------------------ bounds
MaxCoord == 2
MaxLen == 2

Coords == (0 - MaxCoord)..MaxCoord
Points == [x : Coords, y : Coords]

NoArgs == [kind |-> "none"]
NoRet == [kind |-> "none"]

\* ------------------------------------------------------------ Matrix, Item
Identity == [a |-> 1, b |-> 0, c |-> 0, d |-> 1, tx |-> 0, ty |-> 0]

getTranslation(m) == [x |-> m.tx, y |-> m.ty]

subtract(p, q) == [x |-> p.x - q.x, y |-> p.y - q.y]

\* Matrix#prepend: the result is mx * m
prepend(m, mx) ==
    [a  |-> mx.a * m.a + mx.c * m.b,
     c  |-> mx.a * m.c + mx.c * m.d,
     b  |-> mx.b * m.a + mx.d * m.b,
     d  |-> mx.b * m.c + mx.d * m.d,
     tx |-> mx.a * m.tx + mx.c * m.ty + mx.tx,
     ty |-> mx.b * m.tx + mx.d * m.ty + mx.ty]

\* Item#translate(delta): transform(new Matrix().translate(delta))
translate(m, delta) ==
    prepend(m, [Identity EXCEPT !.tx = delta.x, !.ty = delta.y])

\* the transforms a caller applies through Item#transform
Rot90 == [a |-> 0, b |-> 1, c |-> 0 - 1, d |-> 0, tx |-> 0, ty |-> 0]
Scale2 == [a |-> 2, b |-> 0, c |-> 0, d |-> 2, tx |-> 0, ty |-> 0]
Transforms == {Rot90, Scale2}

InRange(m) ==
    /\ m.a \in Coords /\ m.b \in Coords /\ m.c \in Coords /\ m.d \in Coords
    /\ m.tx \in Coords /\ m.ty \in Coords

\* ---------------------------------------------------------- anchor accessor
getPoint_plain(m) ==
    LET point == getTranslation(m)
    IN  [x |-> point.x, y |-> point.y, owner |-> "none", setter |-> "none"]

\* getPoint: a new LinkedPoint on the translation, owned by this node
getPoint(m) ==
    LET point == getTranslation(m)
    IN  [x |-> point.x, y |-> point.y, owner |-> "this", setter |-> "setPoint"]

setPoint_absolute(m, point) == translate(m, point)

\* setPoint: translate by point - translation
setPoint(m, point) == translate(m, subtract(point, getTranslation(m)))

\* LinkedPoint#setX / #setY: store the coordinate, then owner[setter](this)
LinkedPointSet(pt, axis, v) ==
    IF axis = "x" THEN [pt EXCEPT !.x = v] ELSE [pt EXCEPT !.y = v]

LinkedPointNotify(m, pt) ==
    IF pt.owner = "this" /\ pt.setter = "setPoint"
    THEN setPoint(m, [x |-> pt.x, y |-> pt.y])
    ELSE m

Transform(mx) ==
    /\ InRange(prepend(matrix, mx))
    /\ matrix' = prepend(matrix, mx)
    /\ lastOp' = "transform"
    /\ args' = [kind |-> "matrix", mx |-> mx]
    /\ ret' = NoRet
    /\ UNCHANGED <<held, content, lines, style, body, drawn, prevDrawn>>

SetPoint(p) ==
    /\ matrix' = setPoint(matrix, p)
    /\ lastOp' = "setPoint"
    /\ args' = [kind |-> "point", x |-> p.x, y |-> p.y]
    /\ ret' = NoRet
    /\ UNCHANGED <<held, content, lines, style, body, drawn, prevDrawn>>

GetPoint ==
    /\ held' = <<getPoint(matrix)>>
    /\ lastOp' = "getPoint"
    /\ args' = NoArgs
    /\ ret' = NoRet
    /\ UNCHANGED <<matrix, content, lines, style, body, drawn, prevDrawn>>

\* the caller assigns a coordinate of the point it got from getPoint
MutatePoint(axis, v) ==
    /\ held # <<>>
    /\ LET pt == LinkedPointSet(held[1], axis, v)
       IN  /\ held' = <<pt>>
           /\ matrix' = LinkedPointNotify(matrix, pt)
    /\ lastOp' = "mutatePoint"
    /\ args' = [kind |-> "coord", axis |-> axis, v |-> v]
    /\ ret' = NoRet
    /\ UNCHANGED <<content, lines, style, body, drawn, prevDrawn>>

\* ------------------------------------------------------------------ style
Justifications == {"left", "center", "right", "justify"}
Leadings == {4, 8}
StrokeWidths == {0, 2, 4}

InitStyle ==
    [justification |-> "left", leading |-> 4, fontSize |-> 4,
     hasFill |-> TRUE, hasStroke |-> FALSE, strokeWidth |-> 0]

InitCommon ==
    /\ matrix = Identity
    /\ held = <<>>
    /\ content = <<>>
    /\ lines = <<>>
    /\ style = InitStyle
    /\ body = {"canvas"}
    /\ lastOp = "initialize"
    /\ args = NoArgs
    /\ ret = NoRet
    /\ drawn = NoRet
    /\ prevDrawn = NoRet

\* ------------------------------------------------------------- line store
Chars == {"a", "\n"}

RECURSIVE SeqsUpTo(_)
SeqsUpTo(n) ==
    IF n = 0 THEN {<<>>}
    ELSE LET shorter == SeqsUpTo(n - 1)
         IN  shorter \cup {Append(s, ch) : s \in shorter, ch \in Chars}

Contents == SeqsUpTo(MaxLen)

RECURSIVE splitLines(_)
splitLines(s) ==
    IF \A i \in 1..Len(s) : s[i] # "\n" THEN <<s>>
    ELSE LET i == CHOOSE j \in 1..Len(s) :
                      /\ s[j] = "\n"
                      /\ \A k \in 1..(j - 1) : s[k] # "\n"
         IN  <<SubSeq(s, 1, i - 1)>> \o splitLines(SubSeq(s, i + 1, Len(s)))

\* the lines of a content: its segments between line breaks, none when empty
split(c) == IF c = <<>> THEN <<>> ELSE splitLines(c)

ClearDrawn == drawn' = NoRet /\ prevDrawn' = NoRet

SetContent(c) ==
    /\ content' = c
    /\ lines' = split(c)
    /\ lastOp' = "setContent"
    /\ args' = [kind |-> "content", content |-> c]
    /\ ret' = NoRet
    /\ ClearDrawn
    /\ UNCHANGED <<matrix, held, style, body>>

SetJustification(j) ==
    /\ style' = [style EXCEPT !.justification = j]
    /\ lastOp' = "setJustification"
    /\ args' = [kind |-> "justification", justification |-> j]
    /\ ret' = NoRet
    /\ ClearDrawn
    /\ UNCHANGED <<matrix, held, content, lines, body>>

SetLeading(l) ==
    /\ style' = [style EXCEPT !.leading = l]
    /\ lastOp' = "setLeading"
    /\ args' = [kind |-> "leading", leading |-> l]
    /\ ret' = NoRet
    /\ ClearDrawn
    /\ UNCHANGED <<matrix, held, content, lines, body>>

SetStrokeWidth(w) ==
    /\ style' = [style EXCEPT !.strokeWidth = w]
    /\ lastOp' = "setStrokeWidth"
    /\ args' = [kind |-> "strokeWidth", strokeWidth |-> w]
    /\ ret' = NoRet
    /\ UNCHANGED <<matrix, held, content, lines, body, drawn, prevDrawn>>

SetPaint(fill, stroke) ==
    /\ style' = [style EXCEPT !.hasFill = fill, !.hasStroke = stroke]
    /\ lastOp' = "setPaint"
    /\ args' = [kind |-> "paint", fill |-> fill, stroke |-> stroke]
    /\ ret' = NoRet
    /\ UNCHANGED <<matrix, held, content, lines, body, drawn, prevDrawn>>

\* ----------------------------------------------------------------- bounds
Max(a, b) == IF a >= b THEN a ELSE b

RECURSIVE maxLineLength(_)
maxLineLength(lns) ==
    IF lns = <<>> THEN 0 ELSE Max(Len(Head(lns)), maxLineLength(Tail(lns)))

getFontStyle(st) == st.fontSize

\* View#getTextWidth: the widest line; every glyph advances half the font size
getTextWidth(fontStyle, lns) == maxLineLength(lns) * (fontStyle \div 2)

Rectangle(x, y, width, height) ==
    [x |-> x, y |-> y, width |-> width, height |-> height]

_getMeasuredTextSize_leftOnly(st, lns) ==
    LET numLines == Len(lns)
        leading == st.leading
        width == getTextWidth(getFontStyle(st), lns)
    IN  Rectangle(0,
                  IF numLines # 0 THEN 0 - ((3 * leading) \div 4) ELSE 0,
                  width, numLines * leading)

_getMeasuredTextSize(st, lns) ==
    LET numLines == Len(lns)
        justification == st.justification
        leading == st.leading
        width == getTextWidth(getFontStyle(st), lns)
        x == IF justification # "left"
             THEN 0 - (width \div (IF justification = "center" THEN 2 ELSE 1))
             ELSE 0
    IN  Rectangle(x,
                  IF numLines # 0 THEN 0 - ((3 * leading) \div 4) ELSE 0,
                  width, numLines * leading)

\* the measurement host: what the try block of _getDrawnTextSize leaves
\* behind when the step named by outcome raises ("ok": none does)
Outcomes == {"ok", "appendSvgThrows", "appendBodyThrows", "getBBoxThrows"}

measureTry(b, outcome) ==
    CASE outcome = "appendSvgThrows" ->
            [body |-> b, pending |-> "HierarchyRequestError"]
      [] outcome = "appendBodyThrows" ->
            [body |-> b, pending |-> "AppendError"]
      [] outcome = "getBBoxThrows" ->
            [body |-> b \cup {"span"}, pending |-> "BBoxError"]
      [] OTHER ->
            [body |-> b \cup {"span"}, pending |-> "none"]

\* Node#removeChild: raises NotFoundError when el is not a child
removeChild(b, el) ==
    IF el \in b THEN [body |-> b \ {el}, error |-> "none"]
    ELSE [body |-> b, error |-> "NotFoundError"]

\* finally { document.body.removeChild(element) }: an error raised here
\* replaces the pending one
measureFinally(t) ==
    LET r == removeChild(t.body, "span")
    IN  [body |-> r.body,
         thrown |-> IF r.error # "none" THEN r.error ELSE t.pending]

_getDrawnTextSize_noStroke(st, lns, b, bbox, outcome) ==
    LET numLines == Len(lns)
        t == measureTry(b, outcome)
        f == measureFinally(t)
        x == IF st.justification # "left"
             THEN bbox.x - (getTextWidth(getFontStyle(st), lns)
                            \div (IF st.justification = "center" THEN 2 ELSE 1))
             ELSE bbox.x
    IN  IF f.thrown # "none"
        THEN [kind |-> "throw", error |-> f.thrown, raised |-> t.pending,
              body |-> f.body, rect |-> <<>>]
        ELSE [kind |-> "return", error |-> "none", raised |-> t.pending,
              body |-> f.body,
              rect |-> <<Rectangle(x, bbox.y, bbox.width + 1,
                                   Max(bbox.height, numLines * st.leading))>>]

_getDrawnTextSize(st, lns, b, bbox, outcome) ==
    LET numLines == Len(lns)
        leading == st.leading
        justification == st.justification
        t == measureTry(b, outcome)
        f == measureFinally(t)
        halfStrokeWidth == st.strokeWidth \div 2
        width == bbox.width + (halfStrokeWidth * 2)
        height == bbox.height + (halfStrokeWidth * 2)
        x0 == bbox.x - halfStrokeWidth
        y == bbox.y - halfStrokeWidth
        x == IF justification # "left"
             THEN x0 - (getTextWidth(getFontStyle(st), lns)
                        \div (IF justification = "center" THEN 2 ELSE 1))
             ELSE x0
    IN  IF f.thrown # "none"
        THEN [kind |-> "throw", error |-> f.thrown, raised |-> t.pending,
              body |-> f.body, rect |-> <<>>]
        ELSE [kind |-> "return", error |-> "none", raised |-> t.pending,
              body |-> f.body,
              rect |-> <<Rectangle(x, y, width + 1,
                                   Max(height, numLines * leading))>>]

\* _getBounds(matrix, options) without a matrix
_getBounds(options, st, lns, b, bbox, outcome) ==
    IF options.drawnTextBounds
    THEN _getDrawnTextSize(st, lns, b, bbox, outcome)
    ELSE [kind |-> "return", error |-> "none", raised |-> "none", body |-> b,
          rect |-> <<_getMeasuredTextSize(st, lns)>>]

\* the bounding boxes the measurement host reports
BBoxes ==
    {[x |-> 0, y |-> 0 - 3, width |-> 4, height |-> 4],
     [x |-> 0, y |-> 0 - 6, width |-> 2, height |-> 14]}

NoBBox == [x |-> 0, y |-> 0, width |-> 0, height |-> 0]

GetMeasuredBounds ==
    /\ ret' = _getBounds([drawnTextBounds |-> FALSE], style, lines, body,
                         NoBBox, "ok")
    /\ lastOp' = "getMeasuredBounds"
    /\ args' = NoArgs
    /\ UNCHANGED <<matrix, held, content, lines, style, body, drawn, prevDrawn>>

GetDrawnBounds(bbox, outcome) ==
    LET r == _getBounds([drawnTextBounds |-> TRUE], style, lines, body,
                        bbox, outcome)
    IN  /\ ret' = r
        /\ body' = r.body
        /\ lastOp' = "getDrawnBounds"
        /\ args' = [kind |-> "host", bbox |-> bbox, outcome |-> outcome]
        /\ drawn' = [kind |-> "call", strokeWidth |-> style.strokeWidth,
                     bbox |-> bbox, outcome |-> outcome, ret |-> r]
        /\ prevDrawn' = drawn
        /\ UNCHANGED <<matrix, held, content, lines, style>>

BoundsNext ==
    \/ \E c \in Contents : SetContent(c)
    \/ \E j \in Justifications : SetJustification(j)
    \/ \E l \in Leadings : SetLeading(l)
    \/ \E w \in StrokeWidths : SetStrokeWidth(w)
    \/ GetMeasuredBounds
    \/ \E bbox \in BBoxes, outcome \in Outcomes : GetDrawnBounds(bbox, outcome)

SpecBounds == InitCommon /\ [][BoundsNext]_vars

\* ------------------------------------------------------- claims on bounds
Known == {"left", "center", "right"}

\* C2: for justification left, center or right, getMeasuredBounds returns
\* Rectangle(x, y, w, numLines * leading), w the font-metrics width, x = 0,
\* -w/2 or -w, and y = -0.75 * leading when there is a line, else 0.
C2_MeasuredBounds ==
    (lastOp = "getMeasuredBounds" /\ style.justification \in Known) =>
        LET r == ret.rect[1]
            w == getTextWidth(getFontStyle(style), lines)
        IN  /\ ret.kind = "return"
            /\ r.width = w
            /\ r.height = Len(lines) * style.leading
            /\ style.justification = "left" => r.x = 0
            /\ style.justification = "center" => 2 * r.x = 0 - w
            /\ style.justification = "right" => r.x = 0 - w
            /\ Len(lines) > 0 => 4 * r.y = 0 - (3 * style.leading)
            /\ Len(lines) = 0 => r.y = 0

\* reached: centred text of two lines with a positive width
C2_Witness ==
    /\ lastOp = "getMeasuredBounds"
    /\ style.justification = "center"
    /\ Len(lines) = 2
    /\ ret.rect[1].x < 0
    /\ ret.rect[1].y = 0 - 6

\* two successive successful getDrawnBounds calls on the same content, style
\* and host bbox, the first with strokeWidth 0
StrokeRaised ==
    /\ drawn.kind = "call" /\ prevDrawn.kind = "call"
    /\ drawn.ret.kind = "return" /\ prevDrawn.ret.kind = "return"
    /\ prevDrawn.strokeWidth = 0
    /\ drawn.bbox = prevDrawn.bbox

\* C3 (as stated): raising strokeWidth from 0 to s increases both the width
\* and the height returned by getDrawnBounds by exactly s.
C3_Original ==
    StrokeRaised =>
        /\ drawn.ret.rect[1].width =
               prevDrawn.ret.rect[1].width + drawn.strokeWidth
        /\ drawn.ret.rect[1].height =
               prevDrawn.ret.rect[1].height + drawn.strokeWidth

\* C3 (amended): raising strokeWidth from 0 to s increases the width by
\* exactly s; the height is max(bbox.height + s, numLines * leading), so it
\* increases by exactly s when bbox.height >= numLines * leading and by
\* less than s (possibly nothing) otherwise.
C3_StrokePadding ==
    StrokeRaised =>
        LET s == drawn.strokeWidth
            h0 == prevDrawn.ret.rect[1].height
            h == drawn.ret.rect[1].height
            floor == Len(lines) * style.leading
        IN  /\ drawn.ret.rect[1].width = prevDrawn.ret.rect[1].width + s
            /\ h = Max(drawn.bbox.height + s, floor)
            /\ drawn.bbox.height >= floor => h = h0 + s
            /\ (drawn.bbox.height < floor /\ s > 0) => (h >= h0 /\ h < h0 + s)

\* reached: a stroke of 4 on a bbox lower than the line advance, where the
\* width grew by 4 and the height by 2
C3_Witness ==
    /\ StrokeRaised
    /\ drawn.strokeWidth = 4
    /\ drawn.bbox.height = 14
    /\ Len(lines) = 2 /\ style.leading = 8
    /\ drawn.ret.rect[1].height = prevDrawn.ret.rect[1].height + 2

\* C4: when getDrawnBounds ends, by return or by throw, the measurement host
\* is not attached to the document, and an error raised by the attach or
\* measure step is the error the caller receives.
C4_CleanupAndError ==
    lastOp = "getDrawnBounds" =>
        /\ "span" \notin body
        /\ ret.raised # "none" =>
               (ret.kind = "throw" /\ ret.error = ret.raised)

\* C5: with a justification other than left, center and right, both
\* getMeasuredBounds and getDrawnBounds return the x they return for left.
C5_UnknownAsLeft ==
    (/\ lastOp \in {"getMeasuredBounds", "getDrawnBounds"}
     /\ ret.kind = "return"
     /\ style.justification \notin Known) =>
        LET asLeft == [style EXCEPT !.justification = "left"]
            bbox == IF lastOp = "getDrawnBounds" THEN args.bbox ELSE NoBBox
            left == _getBounds([drawnTextBounds |-> lastOp = "getDrawnBounds"],
                               asLeft, lines, body, bbox, "ok")
        IN  ret.rect[1].x = left.rect[1].x

\* --------------------------------------------------------------- renderer
Transparent == "rgba(0,0,0,0)"

\* the surfaces a caller hands to _draw
Surfaces ==
    {[shadowColor |-> sc, font |-> 0, textAlign |-> "start",
      fillStyle |-> "default", strokeStyle |-> "default", ty |-> ty,
      log |-> <<>>] : sc \in {"red", Transparent}, ty \in {0, 4}}

Call(op, text, x, y, ctx) ==
    [op |-> op, text |-> text, x |-> x, y |-> y,
     shadowColor |-> ctx.shadowColor, ty |-> ctx.ty]

fillText(ctx, line, x, y) ==
    [ctx EXCEPT !.log = Append(@, Call("fillText", line, x, y, ctx))]

strokeText(ctx, line, x, y) ==
    [ctx EXCEPT !.log = Append(@, Call("strokeText", line, x, y, ctx))]

ctxTranslate(ctx, x, y) ==
    [ctx EXCEPT !.log = Append(@, Call("translate", <<>>, x, y, ctx)),
                !.ty = @ + y]

\* canvas ignores a textAlign it does not know
setTextAlign(ctx, j) ==
    IF j \in {"left", "right", "center", "start", "end"}
    THEN [ctx EXCEPT !.textAlign = j] ELSE ctx

\* Item#_setStyles: the node's fill and stroke paint go to the surface
_setStyles(ctx, st) ==
    [ctx EXCEPT !.fillStyle = IF st.hasFill THEN "fillColor" ELSE @,
                !.strokeStyle = IF st.hasStroke THEN "strokeColor" ELSE @]

drawLine_shadowKept(ctx, st, line, shadowColor) ==
    LET c1 == [ctx EXCEPT !.shadowColor = shadowColor]
        c2 == IF st.hasFill THEN fillText(c1, line, 0, 0) ELSE c1
        c3 == IF st.hasStroke THEN strokeText(c2, line, 0, 0) ELSE c2
    IN  ctxTranslate(c3, 0, st.leading)

drawLine_advanceFirst(ctx, st, line, shadowColor) ==
    LET c0 == ctxTranslate(ctx, 0, st.leading)
        c1 == [c0 EXCEPT !.shadowColor = shadowColor]
        c2 == IF st.hasFill
              THEN [fillText(c1, line, 0, 0) EXCEPT !.shadowColor = Transparent]
              ELSE c1
    IN  IF st.hasStroke THEN strokeText(c2, line, 0, 0) ELSE c2

\* the body of the loop of _draw
drawLine(ctx, st, line, shadowColor) ==
    LET c1 == [ctx EXCEPT !.shadowColor = shadowColor]
        c2 == IF st.hasFill
              THEN [fillText(c1, line, 0, 0) EXCEPT !.shadowColor = Transparent]
              ELSE c1
        c3 == IF st.hasStroke THEN strokeText(c2, line, 0, 0) ELSE c2
    IN  ctxTranslate(c3, 0, st.leading)

RECURSIVE drawLoop(_, _, _, _, _)
drawLoop(ctx, st, lns, i, shadowColor) ==
    IF i < Len(lns)
    THEN drawLoop(drawLine(ctx, st, lns[i + 1], shadowColor), st, lns, i + 1,
                  shadowColor)
    ELSE ctx

_draw_noGuard(ctx, c, st, lns) ==
    LET c1 == _setStyles(ctx, st)
        shadowColor == c1.shadowColor
        c2 == [c1 EXCEPT !.font = getFontStyle(st)]
        c3 == setTextAlign(c2, st.justification)
    IN  drawLoop(c3, st, lns, 0, shadowColor)

_draw(ctx, c, st, lns) ==
    IF c = <<>> THEN ctx
    ELSE LET c1 == _setStyles(ctx, st)
             shadowColor == c1.shadowColor
             c2 == [c1 EXCEPT !.font = getFontStyle(st)]
             c3 == setTextAlign(c2, st.justification)
         IN  drawLoop(c3, st, lns, 0, shadowColor)

Draw(ctx) ==
    /\ ret' = [kind |-> "drawn", ctx |-> _draw(ctx, content, style, lines)]
    /\ lastOp' = "draw"
    /\ args' = [kind |-> "surface", ctx |-> ctx]
    /\ UNCHANGED <<matrix, held, content, lines, style, body, drawn, prevDrawn>>

\* -------------------------------------------------------------- hit tester
HitPoints == {[x |-> 1, y |-> 0 - 1], [x |-> 0 - 1, y |-> 0 - 1],
              [x |-> 9, y |-> 9]}

HitOptions == [fill : BOOLEAN, stroke : BOOLEAN, hitUnfilledPaths : BOOLEAN]

\* Rectangle#contains(point)
containsPoint(rect, point) ==
    /\ point.x >= rect.x /\ point.y >= rect.y
    /\ point.x <= rect.x + rect.width
    /\ point.y <= rect.y + rect.height

\* Item#_contains: the point is inside the internal bounds
_contains(st, lns, point) ==
    containsPoint(_getMeasuredTextSize(st, lns), point)

_hitTestSelf_anyQuery(st, lns, point, options) ==
    IF (st.hasFill \/ options.hitUnfilledPaths) /\ _contains(st, lns, point)
    THEN [kind |-> "HitResult", type |-> "fill", item |-> "this"]
    ELSE NoRet

_hitTestSelf(st, lns, point, options) ==
    IF /\ options.fill
       /\ (st.hasFill \/ options.hitUnfilledPaths)
       /\ _contains(st, lns, point)
    THEN [kind |-> "HitResult", type |-> "fill", item |-> "this"]
    ELSE NoRet

HitTestSelf(point, options) ==
    /\ ret' = _hitTestSelf(style, lines, point, options)
    /\ lastOp' = "hitTestSelf"
    /\ args' = [kind |-> "hit", point |-> point, options |-> options]
    /\ UNCHANGED <<matrix, held, content, lines, style, body, drawn, prevDrawn>>

DrawNext ==
    \/ \E c \in Contents : SetContent(c)
    \/ \E j \in Justifications : SetJustification(j)
    \/ \E l \in Leadings : SetLeading(l)
    \/ \E fill \in BOOLEAN, stroke \in BOOLEAN : SetPaint(fill, stroke)
    \/ \E ctx \in Surfaces : Draw(ctx)
    \/ \E point \in HitPoints, options \in HitOptions :
           HitTestSelf(point, options)

SpecDraw == InitCommon /\ [][DrawNext]_vars

\* ------------------------------------------- claims on drawing and hitting
\* C6: hitTestSelf returns a fill hit result for this node exactly when
\* options.fill is set, the node has a fill or options.hitUnfilledPaths is
\* set, and the point is contained; with options.fill unset it returns
\* nothing.
C6_HitTestFill ==
    lastOp = "hitTestSelf" =>
        LET wanted == /\ args.options.fill
                      /\ (style.hasFill \/ args.options.hitUnfilledPaths)
                      /\ _contains(style, lines, args.point)
        IN  /\ wanted => (/\ ret.kind = "HitResult"
                          /\ ret.type = "fill" /\ ret.item = "this")
            /\ ~wanted => ret = NoRet
            /\ ~args.options.fill => ret = NoRet

\* reached: a stroke-only query on a filled node at a contained point
C6_Witness ==
    /\ lastOp = "hitTestSelf"
    /\ ~args.options.fill /\ args.options.stroke
    /\ style.hasFill
    /\ lines # <<>> /\ _contains(style, lines, args.point)
    /\ ret = NoRet

\* C7: with empty content, draw performs no surface operation: the surface
\* after the call equals the surface before it.
C7_EmptyDrawNoOp ==
    (lastOp = "draw" /\ content = <<>>) => ret.ctx = args.ctx

\* reached: draw on empty content of a node with a paint and a
\* justification the surface would take
C7_Witness ==
    /\ lastOp = "draw" /\ content = <<>>
    /\ style.hasFill /\ style.hasStroke
    /\ style.justification = "center"
    /\ args.ctx.shadowColor = "red"

IsPaint(e) == e.op \in {"fillText", "strokeText"}

TranslatesBefore(log, i) ==
    Cardinality({j \in 1..(i - 1) : log[j].op = "translate"})

\* the paint operations of line k (0-based): those after k translations
PaintsOfLine(log, k) ==
    {i \in 1..Len(log) : IsPaint(log[i]) /\ TranslatesBefore(log, i) = k}

PaintsPerLine(st) ==
    (IF st.hasFill THEN 1 ELSE 0) + (IF st.hasStroke THEN 1 ELSE 0)

\* C9: in a draw call, the first paint operation of every line (the fill if
\* there is a fill paint, else the stroke) runs under the shadow colour the
\* surface had when draw started, and a stroke that follows a fill runs
\* under the transparent shadow colour.
C9_ShadowOncePerLine ==
    (lastOp = "draw" /\ content # <<>>) =>
        LET log == ret.ctx.log
            ambient == args.ctx.shadowColor
        IN  \A k \in 0..(Len(lines) - 1) :
                LET P == PaintsOfLine(log, k)
                IN  /\ Cardinality(P) = PaintsPerLine(style)
                    /\ \A i \in P :
                           IF \A j \in P : i <= j
                           THEN /\ log[i].shadowColor = ambient
                                /\ log[i].op = IF style.hasFill
                                               THEN "fillText"
                                               ELSE "strokeText"
                           ELSE /\ log[i].op = "strokeText"
                                /\ log[i - 1].op = "fillText"
                                /\ log[i].shadowColor = Transparent

\* reached: two lines drawn with fill and stroke under a red shadow
C9_Witness ==
    /\ lastOp = "draw" /\ Len(lines) = 2
    /\ style.hasFill /\ style.hasStroke
    /\ args.ctx.shadowColor = "red"
    /\ Len(ret.ctx.log) = 6

\* C10: in a draw call on n lines, line k is painted at the local origin
\* after exactly k translations of (0, leading), i.e. at vertical offset
\* k * leading, lines in list order, and the surface ends translated by
\* (0, n * leading).
C10_LineAdvance ==
    (lastOp = "draw" /\ content # <<>>) =>
        LET log == ret.ctx.log
            n == Len(lines)
        IN  /\ \A i \in 1..Len(log) :
                   IF IsPaint(log[i])
                   THEN LET k == TranslatesBefore(log, i)
                        IN  /\ k < n
                            /\ log[i].text = lines[k + 1]
                            /\ log[i].x = 0 /\ log[i].y = 0
                            /\ log[i].ty = args.ctx.ty + k * style.leading
                   ELSE log[i].x = 0 /\ log[i].y = style.leading
            /\ \A k \in 0..(n - 1) :
                   Cardinality(PaintsOfLine(log, k)) = PaintsPerLine(style)
            /\ TranslatesBefore(log, Len(log) + 1) = n
            /\ ret.ctx.ty = args.ctx.ty + n * style.leading

\* reached: three lines painted on a surface already translated by 4
C10_Witness ==
    /\ lastOp = "draw" /\ Len(lines) = 3
    /\ style.hasStroke /\ style.leading = 8
    /\ args.ctx.ty = 4 /\ ret.ctx.ty = 28

\* --------------------------------------------------- anchor specification
AnchorNext ==
    \/ \E mx \in Transforms : Transform(mx)
    \/ \E p \in Points : SetPoint(p)
    \/ GetPoint
    \/ \E axis \in {"x", "y"}, v \in Coords : MutatePoint(axis, v)

SpecAnchor == InitCommon /\ [][AnchorNext]_vars

\* C1: after setPoint(p), whatever rotation or scale the transform already
\* had, getPoint() returns a point equal to p.
C1_AnchorRoundTrip ==
    lastOp = "setPoint" =>
        /\ getPoint(matrix).x = args.x
        /\ getPoint(matrix).y = args.y

\* reached: setPoint on a rotated and scaled node that had another anchor
C1_Witness ==
    /\ lastOp = "setPoint"
    /\ matrix.a = 0 /\ matrix.b = 2
    /\ args.x = 1 /\ args.y = 0 - 2

====
